---- MODULE Spec2Model ----
(***************************************************************************)
(* Model of two layers of the caffe layer library:                         *)
(*   - CuDNNConvolutionLayer (src/src/caffe/layers/cudnn_conv_layer.cpp):  *)
(*     LayerSetUp, Reshape and the destructor, with the heap arrays and    *)
(*     the provider's descriptors they own;                                *)
(*   - PowerLayer (src/src/caffe/layers/power_layer.cpp): LayerSetUp,      *)
(*     Forward_cpu and Backward_cpu over blobs of Dtype values.            *)
(* ConvSpec and PowerSpec are the two state machines; each leaves the      *)
(* other layer's variables untouched.                                      *)
(***************************************************************************)
EXTENDS Integers, Sequences, FiniteSets

VARIABLES
  \* ---- CuDNNConvolutionLayer: the object's fields
  handles_setup_, bias_term_, num_spatial_axes_,
  fwd_algo_, bwd_filter_algo_, bwd_data_algo_,
  workspace_fwd_sizes_, workspace_bwd_filter_sizes_, workspace_bwd_data_sizes_,
  workspaceSizeInBytes, workspaceData,
  fwd_filter_desc_, bwd_filter_desc_, bias_desc_,
  bottom_descs_, top_descs_, fwd_conv_descs_, bwd_conv_descs_,
  \* ---- the heap, the provider and the device allocator as the layer drives them
  allocated,       \* the new[]-ed arrays (by member name) not yet delete[]-d
  delete_calls,    \* delete[] calls per array
  created_descs,   \* every descriptor handle a create call returned
  live_descs,      \* created and not yet destroyed
  destroy_calls,   \* cudnnDestroy*Descriptor calls per handle
  desc_config,     \* the geometry each descriptor was last configured with
  dealloc_calls,   \* gpu_memory::deallocate calls
  \* ---- the life of the object and the history of its calls
  status,          \* constructed | ready | thrown | fatal | destroyed
  error,           \* what ended a call abnormally
  reshape_calls,   \* Reshape calls made
  reshape_ok,      \* Reshape calls that returned
  max_size_seen,   \* the largest workspace size ever stored in a size array
  \* ---- PowerLayer: parameters, fields and blobs
  layer_param, power_, scale_, shift_, diff_scale_,
  bottom_data, bottom_diff, top_data, top_diff,
  \* ---- PowerLayer: the history of its calls
  last_op,           \* constructed | LayerSetUp | Forward | Backward
  propagate_down,    \* propagate_down[0] of the last Backward_cpu call
  bottom_data_read,  \* Forward_cpu took bottom[0]->cpu_data()
  dydx               \* bottom_diff as it stood before the final caffe_mul

convVars == <<handles_setup_, bias_term_, num_spatial_axes_,
              fwd_algo_, bwd_filter_algo_, bwd_data_algo_,
              workspace_fwd_sizes_, workspace_bwd_filter_sizes_,
              workspace_bwd_data_sizes_, workspaceSizeInBytes, workspaceData,
              fwd_filter_desc_, bwd_filter_desc_, bias_desc_,
              bottom_descs_, top_descs_, fwd_conv_descs_, bwd_conv_descs_,
              allocated, delete_calls, created_descs, live_descs, destroy_calls,
              desc_config, dealloc_calls, status, error, reshape_calls,
              reshape_ok, max_size_seen>>

powerVars == <<layer_param, power_, scale_, shift_, diff_scale_,
               bottom_data, bottom_diff, top_data, top_diff,
               last_op, propagate_down, bottom_data_read, dydx>>

vars == <<convVars, powerVars>>

(***************************************************************************)
(* Bounds                                                                  *)
(***************************************************************************)
MaxBottoms == 2      \* bottom.size() ranges over 1..MaxBottoms
MaxGeom == 2         \* input geometries (height x width classes) 1..MaxGeom
MaxReshapes == 2     \* Reshape calls per layer
MaxCount == 2        \* bottom[0]->count() ranges over 1..MaxCount
MaxPower == 3        \* power ranges over 0..MaxPower
MaxScale == 2        \* scale ranges over -1..MaxScale
MaxData == 1         \* finite blob values range over -1..MaxData

RangeOf(s) == {s[i] : i \in 1..Len(s)}

Max2(a, b) == IF a >= b THEN a ELSE b

(***************************************************************************)
(* CuDNNConvolutionLayer                                                   *)
(***************************************************************************)
\* Descriptor handles are <<kind, input index>>; NoDesc is a member that no
\* create call has assigned.
NoDesc == <<"none", 0>>

DescKinds == {"bottom", "top", "fwd_conv", "bwd_conv"}

AllHandles ==
  {NoDesc, <<"fwd_filter", 0>>, <<"bwd_filter", 0>>, <<"bias", 0>>}
    \cup (DescKinds \X (1..MaxBottoms))

ArrayNames == {"fwd_algo_", "bwd_filter_algo_", "bwd_data_algo_",
               "workspace_fwd_sizes_", "workspace_bwd_filter_sizes_",
               "workspace_bwd_data_sizes_"}

\* The provider's algorithms: 0, the default of lines 39-41, which needs no
\* workspace, and 1, standing for the others, which need some.
Algos == {0, 1}

\* The number of spatial axes the base layer derives from the input.  With
\* one axis, kernel_shape_data[1] (line 54) is read past the blob; the filter
\* descriptor made from it may be created or rejected, as any other may.
SpatialAxes == {1, 2, 3}

\* The steps of LayerSetUp that can end it, in program order: the base
\* class's LayerSetUp (a CHECK), six new[] (std::bad_alloc), the two filter
\* descriptors, four descriptors per input, the bias descriptor (CUDNN_CHECK).
RECURSIVE InputSteps(_)
InputSteps(n) ==
  IF n = 0 THEN <<>>
  ELSE InputSteps(n - 1) \o << <<"create", "bottom", n>>, <<"create", "top", n>>,
                               <<"create", "fwd_conv", n>>,
                               <<"create", "bwd_conv", n>> >>

SetUpSteps(n, bias) ==
  << <<"base", "ConvolutionLayer", 0>>,
     <<"new", "fwd_algo_", 0>>, <<"new", "bwd_filter_algo_", 0>>,
     <<"new", "bwd_data_algo_", 0>>, <<"new", "workspace_fwd_sizes_", 0>>,
     <<"new", "workspace_bwd_filter_sizes_", 0>>,
     <<"new", "workspace_bwd_data_sizes_", 0>>,
     <<"create", "fwd_filter", 0>>, <<"create", "bwd_filter", 0>> >>
  \o InputSteps(n)
  \o (IF bias THEN << <<"create", "bias", 0>> >> ELSE <<>>)

\* The steps that ran when step f failed (f = 0: none failed).
StepsDone(steps, f) == IF f = 0 THEN steps ELSE SubSeq(steps, 1, f - 1)

NewedArrays(done) == {s[2] : s \in {t \in RangeOf(done) : t[1] = "new"}}

CreatedHandles(done) ==
  {<<s[2], s[3]>> : s \in {t \in RangeOf(done) : t[1] = "create"}}

\* The vector a push_back loop has built: one handle per input whose
\* descriptor of this kind was created.
PushedDescs(done, kind) ==
  [i \in 1..Cardinality({h \in CreatedHandles(done) : h[1] = kind}) |->
     <<kind, i>>]

MemberDesc(done, kind) ==
  IF <<kind, 0>> \in CreatedHandles(done) THEN <<kind, 0>> ELSE NoDesc

\* Lines 39-45: every slot starts at the default algorithm, which needs no
\* workspace.
DefaultAlgos(n) == [i \in 1..n |-> 0]

DefaultSizes_Unset(n) == [i \in 1..n |-> 1]

DefaultSizes(n) == [i \in 1..n |-> 0]

\* How a failed step ends the call: new[] throws, a CHECK aborts.
FailureStatus(step) == IF step[1] = "new" THEN "thrown" ELSE "fatal"

FailureError(step) ==
  IF step[1] = "new" THEN "bad_alloc"
  ELSE IF step[1] = "base" THEN "base_setup" ELSE "provider"

ConvLayerSetUp ==
  /\ status = "constructed"
  /\ \E n \in 1..MaxBottoms, bias \in BOOLEAN, axes \in SpatialAxes :
       \E f \in 0..Len(SetUpSteps(n, bias)) :
         LET steps == SetUpSteps(n, bias)
             done == StepsDone(steps, f)
             newed == NewedArrays(done)
             inited == newed = ArrayNames
         IN
         /\ bias_term_' = IF Len(done) >= 1 THEN bias ELSE bias_term_
         /\ num_spatial_axes_' = IF Len(done) >= 1 THEN axes
                                 ELSE num_spatial_axes_
         /\ allocated' = newed
         /\ fwd_algo_' = IF inited THEN DefaultAlgos(n) ELSE fwd_algo_
         /\ bwd_filter_algo_' = IF inited THEN DefaultAlgos(n)
                                ELSE bwd_filter_algo_
         /\ bwd_data_algo_' = IF inited THEN DefaultAlgos(n)
                              ELSE bwd_data_algo_
         /\ workspace_fwd_sizes_' = IF inited THEN DefaultSizes(n)
                                    ELSE workspace_fwd_sizes_
         /\ workspace_bwd_filter_sizes_' = IF inited THEN DefaultSizes(n)
                                           ELSE workspace_bwd_filter_sizes_
         /\ workspace_bwd_data_sizes_' = IF inited THEN DefaultSizes(n)
                                         ELSE workspace_bwd_data_sizes_
         /\ workspaceSizeInBytes' = IF inited THEN 0 ELSE workspaceSizeInBytes
         /\ workspaceData' = IF inited THEN "NULL" ELSE workspaceData
         /\ max_size_seen' = max_size_seen
         /\ created_descs' = CreatedHandles(done)
         /\ live_descs' = CreatedHandles(done)
         /\ fwd_filter_desc_' = MemberDesc(done, "fwd_filter")
         /\ bwd_filter_desc_' = MemberDesc(done, "bwd_filter")
         /\ bias_desc_' = MemberDesc(done, "bias")
         /\ bottom_descs_' = PushedDescs(done, "bottom")
         /\ top_descs_' = PushedDescs(done, "top")
         /\ fwd_conv_descs_' = PushedDescs(done, "fwd_conv")
         /\ bwd_conv_descs_' = PushedDescs(done, "bwd_conv")
         /\ handles_setup_' = (f = 0)
         /\ status' = IF f = 0 THEN "ready" ELSE FailureStatus(steps[f])
         /\ error' = IF f = 0 THEN "none" ELSE FailureError(steps[f])
  /\ UNCHANGED <<delete_calls, destroy_calls, desc_config, dealloc_calls,
                 reshape_calls, reshape_ok>>
  /\ UNCHANGED powerVars

\* ---- the external provider, as Reshape queries it
\* The workspace each algorithm needs for a geometry.  Algorithm 0, the
\* default, needs none (line 42).
FwdWorkspaceSize(algo, geom) == algo * geom

BwdFilterWorkspaceSize(algo, geom) == algo * (geom + 1)

BwdDataWorkspaceSize(algo, geom) == algo * (geom + 2)

\* The provider's answer to the three algorithm queries of one iteration.
\* Within one Reshape every input is configured from bottom[0]'s shape
\* (lines 99-102, 116-128) and queried with the same workspace limit
\* (line 113), so the provider, a function of its arguments, gives every
\* input the same answer; which algorithm it prefers, under whatever limit
\* the device reports, is its own choice.
Selections == [fwd : Algos, bwd_filter : Algos, bwd_data : Algos]

\* Lines 140-146, 160-163, 173-176: the size stored for each pass is the one
\* the provider reports for the algorithm just chosen for that pass.
ReshapeSizes_Swapped(sel, geom) ==
  [fwd |-> FwdWorkspaceSize(sel.fwd, geom),
   bwd_filter |-> BwdDataWorkspaceSize(sel.bwd_data, geom),
   bwd_data |-> BwdFilterWorkspaceSize(sel.bwd_filter, geom)]

ReshapeSizes(sel, geom) ==
  [fwd |-> FwdWorkspaceSize(sel.fwd, geom),
   bwd_filter |-> BwdFilterWorkspaceSize(sel.bwd_filter, geom),
   bwd_data |-> BwdDataWorkspaceSize(sel.bwd_data, geom)]

\* Line 93, CHECK_EQ(2, num_spatial_axes_).
SpatialAxesOk_AtLeast == num_spatial_axes_ >= 2

SpatialAxesOk == num_spatial_axes_ = 2

\* The six provider queries of one loop iteration, in program order; each is
\* wrapped in CUDNN_CHECK.
NumQueries == 6

\* How many of input i's queries completed when query k of input fi failed
\* (fi = 0: none failed); -1 for an input the loop never reached.
Progress(i, fi, k) ==
  IF fi = 0 \/ i < fi THEN NumQueries
  ELSE IF i = fi THEN k - 1 ELSE -1

UpdatedSlots(old, value, fi, k, after) ==
  [i \in 1..Len(old) |-> IF Progress(i, fi, k) >= after THEN value ELSE old[i]]

\* The descriptors (re)configured: bottom, top and forward convolution at
\* the head of the iteration, the backward convolution after the forward
\* queries (line 148), the bias after the loop (lines 180-183).
ConfiguredDescs(fi, k) ==
  {bottom_descs_[i] : i \in {j \in 1..Len(bottom_descs_) : Progress(j, fi, k) >= 0}}
  \cup {top_descs_[i] : i \in {j \in 1..Len(top_descs_) : Progress(j, fi, k) >= 0}}
  \cup {fwd_conv_descs_[i] :
          i \in {j \in 1..Len(fwd_conv_descs_) : Progress(j, fi, k) >= 0}}
  \cup {bwd_conv_descs_[i] :
          i \in {j \in 1..Len(bwd_conv_descs_) : Progress(j, fi, k) >= 2}}
  \cup (IF fi = 0 /\ bias_term_ THEN {bias_desc_} ELSE {})

SizesStored(sizes, fi, k) ==
  {0} \cup (IF \E i \in 1..Len(bottom_descs_) : Progress(i, fi, k) >= 2
            THEN {sizes.fwd} ELSE {})
      \cup (IF \E i \in 1..Len(bottom_descs_) : Progress(i, fi, k) >= 4
            THEN {sizes.bwd_filter} ELSE {})
      \cup (IF \E i \in 1..Len(bottom_descs_) : Progress(i, fi, k) >= 6
            THEN {sizes.bwd_data} ELSE {})

SetMax(S) == CHOOSE m \in S : \A x \in S : x <= m

ConvReshape ==
  /\ status = "ready"
  /\ reshape_calls < MaxReshapes
  /\ reshape_calls' = reshape_calls + 1
  /\ IF ~SpatialAxesOk
     THEN /\ status' = "fatal"
          /\ error' = "spatial_axes"
          /\ UNCHANGED <<fwd_algo_, bwd_filter_algo_, bwd_data_algo_,
                         workspace_fwd_sizes_, workspace_bwd_filter_sizes_,
                         workspace_bwd_data_sizes_, desc_config, reshape_ok,
                         max_size_seen>>
     ELSE \E geom \in 1..MaxGeom, sel \in Selections :
          \E fi \in 0..Len(bottom_descs_), k \in 1..NumQueries :
            LET sizes == ReshapeSizes(sel, geom)
                configured == ConfiguredDescs(fi, k)
            IN
            /\ fi = 0 => k = 1
            /\ fwd_algo_' = UpdatedSlots(fwd_algo_, sel.fwd, fi, k, 1)
            /\ workspace_fwd_sizes_' =
                 UpdatedSlots(workspace_fwd_sizes_, sizes.fwd, fi, k, 2)
            /\ bwd_filter_algo_' =
                 UpdatedSlots(bwd_filter_algo_, sel.bwd_filter, fi, k, 3)
            /\ workspace_bwd_filter_sizes_' =
                 UpdatedSlots(workspace_bwd_filter_sizes_, sizes.bwd_filter,
                              fi, k, 4)
            /\ bwd_data_algo_' =
                 UpdatedSlots(bwd_data_algo_, sel.bwd_data, fi, k, 5)
            /\ workspace_bwd_data_sizes_' =
                 UpdatedSlots(workspace_bwd_data_sizes_, sizes.bwd_data,
                              fi, k, 6)
            /\ desc_config' =
                 [h \in AllHandles |->
                    IF h \in configured THEN geom
                    ELSE desc_config[h]]
            /\ max_size_seen' =
                 Max2(max_size_seen, SetMax(SizesStored(sizes, fi, k)))
            /\ status' = IF fi = 0 THEN "ready" ELSE "fatal"
            /\ error' = IF fi = 0 THEN "none" ELSE "provider"
            /\ reshape_ok' = IF fi = 0 THEN reshape_ok + 1 ELSE reshape_ok
  /\ UNCHANGED <<handles_setup_, bias_term_, num_spatial_axes_,
                 workspaceSizeInBytes, workspaceData,
                 fwd_filter_desc_, bwd_filter_desc_, bias_desc_,
                 bottom_descs_, top_descs_, fwd_conv_descs_, bwd_conv_descs_,
                 allocated, delete_calls, created_descs, live_descs,
                 destroy_calls, dealloc_calls>>
  /\ UNCHANGED powerVars

\* ---- the destructor
\* It runs on a layer never set up, on a ready one, and on one whose
\* LayerSetUp threw std::bad_alloc; a failed CHECK aborts the process, and no
\* destructor runs after it.
\* Line 189: nothing is released unless LayerSetUp completed.
DestructorReturnsEarly_Never == FALSE

DestructorReturnsEarly == ~handles_setup_

\* Lines 191-201: the handles passed to the provider's destroy calls, one
\* call each.
DestroyedHandles_NoBwdConv ==
  RangeOf(bottom_descs_) \cup RangeOf(top_descs_) \cup RangeOf(fwd_conv_descs_)
    \cup (IF bias_term_ THEN {bias_desc_} ELSE {})
    \cup {fwd_filter_desc_, bwd_filter_desc_}

DestroyedHandles ==
  {bottom_descs_[i] : i \in 1..Len(bottom_descs_)}
    \cup {top_descs_[i] : i \in 1..Len(bottom_descs_)}
    \cup {fwd_conv_descs_[i] : i \in 1..Len(bottom_descs_)}
    \cup {bwd_conv_descs_[i] : i \in 1..Len(bottom_descs_)}
    \cup (IF bias_term_ THEN {bias_desc_} ELSE {})
    \cup {fwd_filter_desc_, bwd_filter_desc_}

\* Lines 203-208.
DeletedArrays == ArrayNames

ConvDestroy ==
  /\ status \in {"constructed", "ready", "thrown"}
  /\ status' = "destroyed"
  /\ IF DestructorReturnsEarly
     THEN UNCHANGED <<destroy_calls, live_descs, delete_calls, allocated,
                      dealloc_calls, workspaceData>>
     ELSE /\ destroy_calls' =
               [h \in AllHandles |->
                  IF h \in DestroyedHandles THEN destroy_calls[h] + 1
                  ELSE destroy_calls[h]]
          /\ live_descs' = live_descs \ DestroyedHandles
          /\ delete_calls' =
               [a \in ArrayNames |->
                  IF a \in DeletedArrays THEN delete_calls[a] + 1
                  ELSE delete_calls[a]]
          /\ allocated' = allocated \ DeletedArrays
          /\ dealloc_calls' = dealloc_calls + 1
          /\ workspaceData' = "NULL"
  /\ UNCHANGED <<handles_setup_, bias_term_, num_spatial_axes_,
                 fwd_algo_, bwd_filter_algo_, bwd_data_algo_,
                 workspace_fwd_sizes_, workspace_bwd_filter_sizes_,
                 workspace_bwd_data_sizes_, workspaceSizeInBytes,
                 fwd_filter_desc_, bwd_filter_desc_, bias_desc_,
                 bottom_descs_, top_descs_, fwd_conv_descs_, bwd_conv_descs_,
                 created_descs, desc_config, error, reshape_calls, reshape_ok,
                 max_size_seen>>
  /\ UNCHANGED powerVars

\* ---- the state after construction
\* The members LayerSetUp assigns hold no value before it runs; the scratch
\* size and pointer, plain members, may hold anything.
ConvInit ==
  /\ handles_setup_ = FALSE
  /\ bias_term_ = FALSE
  /\ num_spatial_axes_ = 0
  /\ fwd_algo_ = <<>> /\ bwd_filter_algo_ = <<>> /\ bwd_data_algo_ = <<>>
  /\ workspace_fwd_sizes_ = <<>>
  /\ workspace_bwd_filter_sizes_ = <<>>
  /\ workspace_bwd_data_sizes_ = <<>>
  /\ workspaceSizeInBytes \in {0, 1}
  /\ workspaceData \in {"NULL", "garbage"}
  /\ fwd_filter_desc_ = NoDesc /\ bwd_filter_desc_ = NoDesc
  /\ bias_desc_ = NoDesc
  /\ bottom_descs_ = <<>> /\ top_descs_ = <<>>
  /\ fwd_conv_descs_ = <<>> /\ bwd_conv_descs_ = <<>>
  /\ allocated = {}
  /\ delete_calls = [a \in ArrayNames |-> 0]
  /\ created_descs = {}
  /\ live_descs = {}
  /\ destroy_calls = [h \in AllHandles |-> 0]
  /\ desc_config = [h \in AllHandles |-> 0]
  /\ dealloc_calls = 0
  /\ status = "constructed"
  /\ error = "none"
  /\ reshape_calls = 0
  /\ reshape_ok = 0
  /\ max_size_seen = 0
  \* the PowerLayer is not part of this machine
  /\ layer_param = [power |-> 1, scale |-> 1, shift |-> 0]
  /\ power_ = 0 /\ scale_ = 0 /\ shift_ = 0 /\ diff_scale_ = 0
  /\ bottom_data = <<>> /\ bottom_diff = <<>>
  /\ top_data = <<>> /\ top_diff = <<>>
  /\ last_op = "constructed"
  /\ propagate_down = FALSE
  /\ bottom_data_read = FALSE
  /\ dydx = <<>>

ConvNext == ConvLayerSetUp \/ ConvReshape \/ ConvDestroy

ConvSpec == ConvInit /\ [][ConvNext]_vars

(***************************************************************************)
(* PowerLayer                                                              *)
(***************************************************************************)
\* ---- Dtype values: exact rationals <<n, d>> with d > 0 in lowest terms,
\* the infinities <<1, 0>> and <<-1, 0>>, and NaN <<0, 0>>.  Rounding and
\* signed zeros are not modelled.
Abs(n) == IF n < 0 THEN -n ELSE n

Sign(n) == IF n < 0 THEN -1 ELSE IF n = 0 THEN 0 ELSE 1

RECURSIVE Gcd(_, _)
Gcd(a, b) == IF b = 0 THEN a ELSE Gcd(b, a % b)

NaN == <<0, 0>>

Fin(n) == <<n, 1>>

IsNaN(v) == v = NaN

IsInf(v) == v[2] = 0 /\ v[1] # 0

IsFinite(v) == v[2] > 0

Norm(n, d) ==
  IF d = 0 THEN <<Sign(n), 0>>
  ELSE LET g == Gcd(Abs(n), Abs(d)) IN <<Sign(d) * (n \div g), Abs(d) \div g>>

DAdd(a, b) ==
  IF IsNaN(a) \/ IsNaN(b) THEN NaN
  ELSE IF IsInf(a) /\ IsInf(b) THEN (IF a = b THEN a ELSE NaN)
  ELSE IF IsInf(a) THEN a
  ELSE IF IsInf(b) THEN b
  ELSE Norm(a[1] * b[2] + b[1] * a[2], a[2] * b[2])

DMul(a, b) ==
  IF IsNaN(a) \/ IsNaN(b) THEN NaN
  ELSE Norm(a[1] * b[1], a[2] * b[2])

DDiv(a, b) ==
  IF IsNaN(a) \/ IsNaN(b) THEN NaN
  ELSE IF IsInf(a) /\ IsInf(b) THEN NaN
  ELSE IF IsInf(b) THEN Fin(0)
  ELSE IF IsInf(a) THEN <<a[1] * (IF b[1] < 0 THEN -1 ELSE 1), 0>>
  ELSE Norm(a[1] * b[2], a[2] * b[1])

\* pow(x, p) for an integer p >= 0; pow(x, 0) is 1 for every x, NaN included.
RECURSIVE DPow(_, _)
DPow(a, p) == IF p = 0 THEN Fin(1) ELSE DMul(a, DPow(a, p - 1))

\* ---- the math_functions the layer calls, elementwise over a buffer
caffe_set(count, alpha) == [i \in 1..count |-> alpha]

caffe_copy(X) == X

caffe_scal(alpha, X) == [i \in 1..Len(X) |-> DMul(Fin(alpha), X[i])]

caffe_add_scalar(alpha, X) == [i \in 1..Len(X) |-> DAdd(X[i], Fin(alpha))]

caffe_powx(X, p) == [i \in 1..Len(X) |-> DPow(X[i], p)]

caffe_div(A, B) == [i \in 1..Len(A) |-> DDiv(A[i], B[i])]

caffe_mul(A, B) == [i \in 1..Len(A) |-> DMul(A[i], B[i])]

\* Y = alpha * X + beta * Y; a zero beta drops Y (the BLAS convention).
caffe_cpu_axpby(alpha, X, beta, Y) ==
  [i \in 1..Len(X) |->
     IF beta = 0 THEN DMul(Fin(alpha), X[i])
     ELSE DAdd(DMul(Fin(alpha), X[i]), DMul(Fin(beta), Y[i]))]

\* ---- the inputs
Powers == 0..MaxPower

Scales == -1..MaxScale

Shifts == {-1, 0, 1}

DataValues == {Fin(n) : n \in -1..MaxData} \cup {NaN}

DiffValues == {Fin(2), NaN}

Zeros(n) == [i \in 1..n |-> Fin(0)]

\* ---- LayerSetUp, lines 14-17
PowerLayerSetUp ==
  /\ last_op = "constructed"
  /\ power_' = layer_param.power
  /\ scale_' = layer_param.scale
  /\ shift_' = layer_param.shift
  /\ diff_scale_' = layer_param.power * layer_param.scale
  /\ last_op' = "LayerSetUp"
  /\ UNCHANGED <<layer_param, bottom_data, bottom_diff, top_data, top_diff,
                 propagate_down, bottom_data_read, dydx>>
  /\ UNCHANGED convVars

\* ---- Forward_cpu
\* Line 27: the input can be ignored.
ForwardIgnoresInput == diff_scale_ = 0

\* Line 28.
ForwardConstant_NoPow == IF power_ = 0 THEN Fin(1) ELSE Fin(shift_)

ForwardConstant == IF power_ = 0 THEN Fin(1) ELSE DPow(Fin(shift_), power_)

\* Lines 32-42.
ForwardGeneral(X) ==
  LET copied == caffe_copy(X)
      scaled == IF scale_ # 1 THEN caffe_scal(scale_, copied) ELSE copied
      shifted == IF shift_ # 0 THEN caffe_add_scalar(shift_, scaled) ELSE scaled
  IN IF power_ # 1 THEN caffe_powx(shifted, power_) ELSE shifted

Forward_cpu ==
  /\ last_op \in {"LayerSetUp", "Backward"}
  /\ last_op' = "Forward"
  /\ IF ForwardIgnoresInput
     THEN /\ top_data' = caffe_set(Len(bottom_data), ForwardConstant)
          /\ bottom_data_read' = FALSE
     ELSE /\ top_data' = ForwardGeneral(bottom_data)
          /\ bottom_data_read' = TRUE
  /\ UNCHANGED <<layer_param, power_, scale_, shift_, diff_scale_,
                 bottom_data, bottom_diff, top_diff, propagate_down, dydx>>
  /\ UNCHANGED convVars

\* ---- Backward_cpu
\* Line 49.
BackwardPropagates_Always(pd) == TRUE

BackwardPropagates(pd) == pd

\* Lines 53-54: dy/dx is the constant diff_scale_.
BackwardConstantBranch_One(count) == caffe_set(count, Fin(1))

BackwardConstantBranch(count) == caffe_set(count, Fin(diff_scale_))

\* Lines 59-67: dy/dx = diff_scale * scale * x + diff_scale * shift.
BackwardPow2Branch_NoShift(X, Y) ==
  caffe_cpu_axpby(diff_scale_ * scale_, X, 0, Y)

BackwardPow2Branch(X, Y) ==
  LET axpby == caffe_cpu_axpby(diff_scale_ * scale_, X, 0, Y)
  IN IF shift_ # 0 THEN caffe_add_scalar(diff_scale_ * shift_, axpby)
     ELSE axpby

\* Lines 68-75: dy/dx = power * y / x.
BackwardShift0Branch(X, T) == caffe_scal(power_, caffe_div(T, X))

\* Lines 76-89: dy/dx = diff_scale * y / (shift + scale * x).
BackwardGeneralBranch(X, T) ==
  LET copied == caffe_copy(X)
      scaled == IF scale_ # 1 THEN caffe_scal(scale_, copied) ELSE copied
      shifted == IF shift_ # 0 THEN caffe_add_scalar(shift_, scaled) ELSE scaled
      divided == caffe_div(T, shifted)
  IN IF diff_scale_ # 1 THEN caffe_scal(diff_scale_, divided) ELSE divided

\* Lines 53-90: bottom_diff before the final multiplication.
BackwardDyDx ==
  IF diff_scale_ = 0 \/ power_ = 1
  THEN BackwardConstantBranch(Len(bottom_data))
  ELSE IF power_ = 2 THEN BackwardPow2Branch(bottom_data, bottom_diff)
  ELSE IF shift_ = 0 THEN BackwardShift0Branch(bottom_data, top_data)
  ELSE BackwardGeneralBranch(bottom_data, top_data)

\* Lines 91-93.
BackwardFinal(D) == IF diff_scale_ # 0 THEN caffe_mul(top_diff, D) ELSE D

Backward_cpu ==
  /\ last_op = "Forward"
  /\ last_op' = "Backward"
  /\ \E pd \in BOOLEAN :
       /\ propagate_down' = pd
       /\ IF BackwardPropagates(pd)
          THEN /\ dydx' = BackwardDyDx
               /\ bottom_diff' = BackwardFinal(BackwardDyDx)
          ELSE UNCHANGED <<dydx, bottom_diff>>
  /\ UNCHANGED <<layer_param, power_, scale_, shift_, diff_scale_,
                 bottom_data, top_data, top_diff, bottom_data_read>>
  /\ UNCHANGED convVars

\* ---- the state after construction: the parameters are those of the
\* layer's message; the blobs hold the input and the upstream gradient, and
\* zero-filled output and gradient buffers of the same count.
PowerInit ==
  /\ layer_param \in [power : Powers, scale : Scales, shift : Shifts]
  /\ power_ = 0 /\ scale_ = 0 /\ shift_ = 0 /\ diff_scale_ = 0
  /\ \E n \in 1..MaxCount :
       /\ bottom_data \in [1..n -> DataValues]
       /\ top_diff \in [1..n -> DiffValues]
       /\ top_data = Zeros(n)
       /\ bottom_diff = Zeros(n)
       /\ dydx = Zeros(n)
  /\ last_op = "constructed"
  /\ propagate_down = FALSE
  /\ bottom_data_read = FALSE
  \* the CuDNNConvolutionLayer is not part of this machine
  /\ handles_setup_ = FALSE
  /\ bias_term_ = FALSE
  /\ num_spatial_axes_ = 0
  /\ fwd_algo_ = <<>> /\ bwd_filter_algo_ = <<>> /\ bwd_data_algo_ = <<>>
  /\ workspace_fwd_sizes_ = <<>>
  /\ workspace_bwd_filter_sizes_ = <<>>
  /\ workspace_bwd_data_sizes_ = <<>>
  /\ workspaceSizeInBytes = 0
  /\ workspaceData = "NULL"
  /\ fwd_filter_desc_ = NoDesc /\ bwd_filter_desc_ = NoDesc
  /\ bias_desc_ = NoDesc
  /\ bottom_descs_ = <<>> /\ top_descs_ = <<>>
  /\ fwd_conv_descs_ = <<>> /\ bwd_conv_descs_ = <<>>
  /\ allocated = {}
  /\ delete_calls = [a \in ArrayNames |-> 0]
  /\ created_descs = {}
  /\ live_descs = {}
  /\ destroy_calls = [h \in AllHandles |-> 0]
  /\ desc_config = [h \in AllHandles |-> 0]
  /\ dealloc_calls = 0
  /\ status = "constructed"
  /\ error = "none"
  /\ reshape_calls = 0
  /\ reshape_ok = 0
  /\ max_size_seen = 0

PowerNext == PowerLayerSetUp \/ Forward_cpu \/ Backward_cpu

PowerSpec == PowerInit /\ [][PowerNext]_vars

(***************************************************************************)
(* Properties of CuDNNConvolutionLayer, checked under ConvSpec             *)
(***************************************************************************)
\* The descriptors LayerSetUp creates for the inputs it was given: four per
\* input, the two filter descriptors, and the bias descriptor exactly when
\* bias_term_ is set.
ExpectedDescs ==
  (DescKinds \X (1..Len(bottom_descs_)))
    \cup {<<"fwd_filter", 0>>, <<"bwd_filter", 0>>}
    \cup (IF bias_term_ THEN {<<"bias", 0>>} ELSE {})

\* C1: destroying a layer whose handles_setup_ is false releases nothing: no
\* descriptor destroy call, no delete[] and no scratch deallocation is made.
C1_DestroyWithoutSetupIsNoOp ==
  (status = "destroyed" /\ ~handles_setup_) =>
    /\ \A h \in AllHandles : destroy_calls[h] = 0
    /\ \A a \in ArrayNames : delete_calls[a] = 0
    /\ dealloc_calls = 0
    /\ live_descs = created_descs

C1_Witness == status = "destroyed" /\ ~handles_setup_ /\ error = "none"

\* C2: after a completed LayerSetUp and any number of Reshape calls, the
\* destructor destroys every descriptor LayerSetUp created exactly once (and
\* nothing else; the bias descriptor iff bias_term_), deletes each of the six
\* arrays once, deallocates the scratch buffer and nulls workspaceData.
C2_DestroyReleasesAllOnce ==
  (status = "destroyed" /\ handles_setup_) =>
    /\ created_descs = ExpectedDescs
    /\ \A h \in AllHandles :
         destroy_calls[h] = IF h \in created_descs THEN 1 ELSE 0
    /\ live_descs = {}
    /\ \A a \in ArrayNames : delete_calls[a] = 1
    /\ allocated = {}
    /\ dealloc_calls = 1
    /\ workspaceData = "NULL"

C2_Witness ==
  /\ status = "destroyed" /\ handles_setup_
  /\ reshape_ok >= 1
  /\ bias_term_
  /\ Len(bottom_descs_) = 2

\* C3: a Reshape on a layer whose input has a number of spatial axes other
\* than 2 never returns: it ends in the fatal spatial-axes error.
C3_ReshapeRejectsNon2Axes ==
  num_spatial_axes_ # 2 =>
    /\ reshape_ok = 0
    /\ reshape_calls > 0 => (status = "fatal" /\ error = "spatial_axes")

C3_Witness ==
  reshape_calls > 0 /\ num_spatial_axes_ = 3 /\ status = "fatal"

\* Each input's three stored workspace sizes are what the provider reports
\* for that input's stored algorithm and configured geometry.
PerInputSizesAsReported ==
  \A i \in 1..Len(bottom_descs_) :
    LET geom == desc_config[bottom_descs_[i]] IN
    /\ workspace_fwd_sizes_[i] = FwdWorkspaceSize(fwd_algo_[i], geom)
    /\ workspace_bwd_filter_sizes_[i] =
         BwdFilterWorkspaceSize(bwd_filter_algo_[i], geom)
    /\ workspace_bwd_data_sizes_[i] =
         BwdDataWorkspaceSize(bwd_data_algo_[i], geom)

\* C4 as stated: after LayerSetUp and successful Reshape calls the per-input
\* sizes are the provider's and workspaceSizeInBytes is the maximum of all
\* workspace sizes stored so far.
C4_Original ==
  status = "ready" =>
    /\ PerInputSizesAsReported
    /\ workspaceSizeInBytes = max_size_seen

\* C4 amended: after LayerSetUp and successful Reshape calls the per-input
\* sizes are the provider's, and workspaceSizeInBytes is still the 0 that
\* LayerSetUp gave it (Reshape does not touch it), so it is at most, not
\* equal to, the maximum of the sizes stored so far; workspaceData is NULL.
C4_SizesReportedScratchUntouched ==
  status = "ready" =>
    /\ PerInputSizesAsReported
    /\ workspaceSizeInBytes = 0
    /\ workspaceSizeInBytes <= max_size_seen
    /\ workspaceData = "NULL"

C4_Witness ==
  /\ status = "ready"
  /\ reshape_ok >= 2
  /\ Len(bottom_descs_) = 2
  /\ workspace_bwd_filter_sizes_[2] > 0
  /\ workspace_bwd_data_sizes_[2] = 0
  /\ max_size_seen > workspace_bwd_filter_sizes_[2]

\* C8 as stated: handles_setup_ is set only when everything LayerSetUp
\* allocates and creates exists, and while it is false the layer owns no
\* descriptor and no array.
C8_Claim ==
  /\ handles_setup_ =>
       /\ created_descs = ExpectedDescs
       /\ status # "destroyed" =>
            (allocated = ArrayNames /\ live_descs = created_descs)
  /\ ~handles_setup_ => (live_descs = {} /\ allocated = {})

\* C9: after LayerSetUp and before any Reshape every input has the default
\* algorithm 0 for the three passes and workspace size 0 for each, the
\* scratch size is 0 and workspaceData is NULL.
C9_DefaultsAfterSetUp ==
  (status = "ready" /\ reshape_calls = 0) =>
    /\ Len(fwd_algo_) = Len(bottom_descs_)
    /\ Len(bwd_filter_algo_) = Len(bottom_descs_)
    /\ Len(bwd_data_algo_) = Len(bottom_descs_)
    /\ Len(workspace_fwd_sizes_) = Len(bottom_descs_)
    /\ Len(workspace_bwd_filter_sizes_) = Len(bottom_descs_)
    /\ Len(workspace_bwd_data_sizes_) = Len(bottom_descs_)
    /\ \A i \in 1..Len(bottom_descs_) :
         /\ fwd_algo_[i] = 0 /\ bwd_filter_algo_[i] = 0
         /\ bwd_data_algo_[i] = 0
         /\ workspace_fwd_sizes_[i] = 0
         /\ workspace_bwd_filter_sizes_[i] = 0
         /\ workspace_bwd_data_sizes_[i] = 0
    /\ workspaceSizeInBytes = 0
    /\ workspaceData = "NULL"

C9_Witness ==
  status = "ready" /\ reshape_calls = 0 /\ Len(fwd_algo_) = 2

(***************************************************************************)
(* Properties of PowerLayer, checked under PowerSpec                       *)
(***************************************************************************)
\* C5: when diff_scale_ is 0, Forward_cpu writes one constant to every
\* output element, 1 if power is 0 and shift^power otherwise, whatever the
\* input holds, and never takes the input buffer.
C5_ForwardConstantOutput ==
  (last_op \in {"Forward", "Backward"} /\ diff_scale_ = 0) =>
    /\ Len(top_data) = Len(bottom_data)
    /\ \A i \in 1..Len(top_data) :
         top_data[i] = IF power_ = 0 THEN Fin(1)
                       ELSE DPow(Fin(shift_), power_)
    /\ ~bottom_data_read

C5_Witness ==
  /\ last_op = "Forward" /\ diff_scale_ = 0
  /\ power_ = 3 /\ shift_ = -1
  /\ Len(bottom_data) = 2
  /\ bottom_data[1] = NaN /\ bottom_data[2] = Fin(1)

\* The general-branch formula diff_scale * y / (shift + scale * x), with y
\* the forward output.
GeneralFormula(i) ==
  DMul(Fin(diff_scale_),
       DDiv(top_data[i],
            DAdd(Fin(shift_), DMul(Fin(scale_), bottom_data[i]))))

Pow2BranchRan ==
  last_op = "Backward" /\ propagate_down /\ power_ = 2 /\ diff_scale_ # 0

\* C6 as stated: for power 2, shift # 0 and x # 0, the dy/dx of the closed
\* form branch equals the general-branch formula.
C6_Original ==
  Pow2BranchRan =>
    \A i \in 1..Len(bottom_data) :
      (shift_ # 0 /\ bottom_data[i] # Fin(0)) => dydx[i] = GeneralFormula(i)

\* C6 amended: for power 2, shift # 0, x # 0 and shift + scale * x # 0, the
\* dy/dx of the closed form branch equals the general-branch formula.
C6_Pow2MatchesGeneral ==
  Pow2BranchRan =>
    \A i \in 1..Len(bottom_data) :
      (/\ shift_ # 0
       /\ bottom_data[i] # Fin(0)
       /\ DAdd(Fin(shift_), DMul(Fin(scale_), bottom_data[i])) # Fin(0))
        => dydx[i] = GeneralFormula(i)

C6_Witness ==
  /\ Pow2BranchRan
  /\ shift_ = 1 /\ scale_ = 2
  /\ bottom_data[1] = Fin(1)
  /\ dydx[1] = Fin(12)

ConstantBranchRan ==
  /\ last_op = "Backward" /\ propagate_down
  /\ (diff_scale_ = 0 \/ power_ = 1)

\* C7 as stated: when diff_scale_ is 0 or power is 1, Backward_cpu leaves
\* bottom_diff[i] = top_diff[i] * diff_scale_ for any top_diff.
C7_Original ==
  ConstantBranchRan =>
    \A i \in 1..Len(bottom_diff) :
      bottom_diff[i] = DMul(top_diff[i], Fin(diff_scale_))

\* C7 amended: when power is 1 and diff_scale_ is not 0, bottom_diff[i] =
\* top_diff[i] * diff_scale_ for any top_diff; when diff_scale_ is 0,
\* bottom_diff[i] is 0 whatever top_diff[i] is, which is
\* top_diff[i] * diff_scale_ for every finite top_diff[i] (not for a NaN or
\* infinite one).
C7_ConstantGradient ==
  ConstantBranchRan =>
    \A i \in 1..Len(bottom_diff) :
      /\ diff_scale_ # 0 =>
           bottom_diff[i] = DMul(top_diff[i], Fin(diff_scale_))
      /\ diff_scale_ = 0 => bottom_diff[i] = Fin(0)
      /\ IsFinite(top_diff[i]) =>
           bottom_diff[i] = DMul(top_diff[i], Fin(diff_scale_))

C7_Witness ==
  /\ ConstantBranchRan
  /\ power_ = 1 /\ scale_ = 2
  /\ top_diff[1] = Fin(2)
  /\ bottom_diff[1] = Fin(4)

\* C10: a Backward_cpu call with propagate_down[0] false leaves bottom diff,
\* bottom data, top data and top diff as they were.
C10_BackwardNoPropagateIsFrame ==
  [][(last_op = "Forward" /\ last_op' = "Backward" /\ ~propagate_down')
       => UNCHANGED <<bottom_diff, bottom_data, top_data, top_diff>>]_vars

C10_Witness ==
  /\ last_op = "Backward" /\ ~propagate_down
  /\ \E i \in 1..Len(bottom_diff) : bottom_diff[i] # Fin(0)

====
